---------------------------- MODULE Spec2Model ----------------------------
(***************************************************************************)
(* A model of the Bloom filter of src/bloom.c (version 1.7.5).             *)
(*                                                                         *)
(* One BloomFilter struct (bf), the heap block its bloom pointer may name  *)
(* (mem), the file system (files), the stdio stream behind bf->filepointer *)
(* (stream), the mmap mapping behind an on-disk bloom pointer (mapping)    *)
(* and the last hex string a caller obtained (hex).  Every public function *)
(* of bloom.c is one action.                                               *)
(*                                                                         *)
(* Scaling.  TLC has no reals: log() values and LOG_TWO_SQUARED are kept   *)
(* in millionths.  A float is kept as its IEEE-754 bit pattern, four bytes *)
(* most significant first; a uint64_t is a natural number and is turned    *)
(* into bytes or hex digits only where the code does so.  Where the full   *)
(* 64 bits matter (rate) a uint64_t is four 16-bit limbs, least            *)
(* significant first, and an int is two.                                   *)
(***************************************************************************)
EXTENDS Integers, Sequences, FiniteSets, TLC

VARIABLES
    bf,        \* the BloomFilter struct
    mem,       \* the heap block returned by calloc for bf->bloom
    files,     \* path -> [exists, data]: the bytes of each file
    stream,    \* the FILE behind bf->filepointer: [open, path, pending]
    mapping,   \* the mmap region behind bf->bloom: [active, path]
    hex,       \* the string returned by the last export_hex_string
    live,      \* the caller holds an initialised, not yet destroyed filter
    op,        \* name of the last function called
    ret,       \* the last int status a function returned
    inserted,  \* history: keys added with success since the bits were last reset
    fileSrc,   \* history: path -> the filter state bloom_filter_export wrote there
    hexSrc,    \* history: the filter state export_hex_string formatted
    args,      \* the valid (n, p) and the hash function this caller uses
    openmp,    \* the build: TRUE iff compiled with _OPENMP defined
    pc,        \* thread -> position inside bloom_filter_add_string_alt
    idx,       \* thread -> loop variable i of the add loop
    reg,       \* thread -> value loaded by a non-atomic read-modify-write
    rate       \* a struct with a 64-bit elements_added, and the int num of
               \* bloom_filter_current_false_positive_rate computed from it

vars == <<bf, mem, files, stream, mapping, hex, live, op, ret,
          inserted, fileSrc, hexSrc, args, openmp, pc, idx, reg, rate>>

-----------------------------------------------------------------------------
(* Bounds of the model *)

MaxN == 2          \* estimated_elements arguments are 0..MaxN
NumKeys == 2       \* the key strings are 1..NumKeys
MaxAdded == 2      \* no add is started once elements_added reached MaxAdded
NumThreads == 2    \* threads of the concurrent specification

Keys == 1..NumKeys
Threads == 1..NumThreads

-----------------------------------------------------------------------------
(* bloom.h and bloom.c constants *)

BLOOM_SUCCESS == 0
BLOOM_FAILURE == -1
CHAR_LEN == 8
LOG_TWO_SQUARED == 480453     \* 0.4804530139182, in millionths
LOG_TWO == 693147             \* log(2.0), in millionths

-----------------------------------------------------------------------------
(* float: IEEE-754 single precision bit patterns, most significant byte first *)

F_ZERO        == <<0, 0, 0, 0>>          \* 0x00000000  0.0f
F_TENTH       == <<61, 204, 204, 205>>   \* 0x3DCCCCCD  0.1f
F_NINE_TENTHS == <<63, 102, 102, 102>>   \* 0x3F666666  0.9f
F_ONE         == <<63, 128, 0, 0>>       \* 0x3F800000  1.0f
F_TWO         == <<64, 0, 0, 0>>         \* 0x40000000  2.0f
F_MINUS_HALF  == <<191, 0, 0, 0>>        \* 0xBF000000  -0.5f

Floats == {F_ZERO, F_TENTH, F_NINE_TENTHS, F_ONE, F_TWO, F_MINUS_HALF}

\* f <= 0.0 : the sign bit is set, or every bit below it is clear
FloatLeZero(f) == f[1] >= 128 \/ (f[1] = 0 /\ f[2] = 0 /\ f[3] = 0 /\ f[4] = 0)

\* mutant of FloatGeOne: f > 1.0, the boundary 1.0 let through
FloatGtOne(f) == f[1] < 128 /\ (f[1] > 63 \/ (f[1] = 63 /\ (f[2] > 128 \/ (f[2] = 128 /\ (f[3] > 0 \/ f[4] > 0)))))

\* f >= 1.0 : positive, and exponent field >= 127 (pattern >= 0x3F800000)
FloatGeOne(f) == f[1] < 128 /\ (f[1] > 63 \/ (f[1] = 63 /\ f[2] >= 128))

\* -log(p) in millionths, for the positive floats above
NegLog(p) ==
    CASE p = F_TENTH       -> 2302585
      [] p = F_NINE_TENTHS -> 105361
      [] p = F_ONE         -> 0
      [] p = F_TWO         -> -693147

-----------------------------------------------------------------------------
(* calculate_optimal_hashes *)

CeilDiv(a, b) == (a + b - 1) \div b

\* round() of the non-negative quotient a / b: halves go away from zero
RoundDiv(a, b) == (2 * a + b) \div (2 * b)

\* m = ceil((-n * log(p)) / LOG_TWO_SQUARED)
OptimalBits(n, p) == CeilDiv(n * NegLog(p), LOG_TWO_SQUARED)

\* mutant of OptimalHashes: k raised to 1 when it rounds to 0
OptimalHashesAtLeastOne(n, m) ==
    IF RoundDiv(LOG_TWO * m, n * 1000000) = 0 THEN 1
    ELSE RoundDiv(LOG_TWO * m, n * 1000000)

\* k = round(log(2.0) * m / n), not raised to 1 when it rounds to 0
OptimalHashes(n, m) == RoundDiv(LOG_TWO * m, n * 1000000)

\* num_pos = ceil(m / (CHAR_LEN * 1.0))
OptimalLength(m) == CeilDiv(m, CHAR_LEN)

\* the struct b with number_hashes, number_bits and bloom_length set from
\* its estimated_elements and false_positive_probability
calculate_optimal_hashes(b) ==
    LET n == b.estimated_elements
        p == b.false_positive_probability
        m == OptimalBits(n, p)
        k == OptimalHashes(n, m)
    IN  [b EXCEPT !.number_hashes = k,
                  !.number_bits = m,
                  !.bloom_length = OptimalLength(m)]

-----------------------------------------------------------------------------
(* Hash functions.  A digest is abstracted to a number below 32: MD5 is a  *)
(* fixed function from byte strings to digests, applied first to the key   *)
(* and then to the previous digest.                                        *)

MD5(x) == (7 * x + 3) % 32

RECURSIVE Md5Chain(_, _)
Md5Chain(x, num) ==
    IF num <= 0 THEN <<>>
    ELSE LET d == MD5(x) IN <<d>> \o Md5Chain(d, num - 1)

\* results[0] = MD5(str), results[i] = MD5(digest of round i-1)
md5_hash_default(num_hashes, str) == Md5Chain(str, num_hashes)

\* a hash function supplied by the caller
custom_hash(num_hashes, str) == [i \in 1..num_hashes |-> 5 * str + 2 * i]

HashArgs == {"NULL", "custom_hash"}     \* hash_function arguments

\* bf->hash_function(number_hashes, str)
bloom_filter_calculate_hashes(b, str, number_hashes) ==
    IF b.hash_function = "custom_hash"
    THEN custom_hash(number_hashes, str)
    ELSE md5_hash_default(number_hashes, str)

\* (hash_function == NULL) ? md5_hash_default : hash_function
SetHash(b, hash_function) ==
    [b EXCEPT !.hash_function =
        IF hash_function = "NULL" THEN "md5_hash_default" ELSE hash_function]

-----------------------------------------------------------------------------
(* Bits of a byte array (sequences are 1-based: byte i of C is s[i+1]) *)

RECURSIVE Pow2(_)
Pow2(n) == IF n = 0 THEN 1 ELSE 2 * Pow2(n - 1)

\* mutant of OrBit: byte ^ (1 << b)
XorBit(byte, b) ==
    IF (byte \div Pow2(b)) % 2 = 1 THEN byte - Pow2(b) ELSE byte + Pow2(b)

\* byte | (1 << b)
OrBit(byte, b) == IF (byte \div Pow2(b)) % 2 = 1 THEN byte ELSE byte + Pow2(b)

\* mutant of set_bit: = in place of |=, the other bits of the byte are lost
set_bit_assign(A, k) == [A EXCEPT ![(k \div 8) + 1] = Pow2(k % 8)]

\* A[k / 8] |= (1 << (k % 8))
set_bit(A, k) == [A EXCEPT ![(k \div 8) + 1] = OrBit(@, k % 8)]

\* mutant of check_bit: the byte is tested, not the bit in it
check_bit_any(A, k) == A[(k \div 8) + 1]

\* A[k / 8] & (1 << (k % 8)), as 0 or non-zero
check_bit(A, k) == ((A[(k \div 8) + 1] \div Pow2(k % 8)) % 2) * Pow2(k % 8)

Zeros(n) == [i \in 1..n |-> 0]

-----------------------------------------------------------------------------
(* Binary and hex encodings of the trailer fields *)

\* the n bytes of an unsigned integer, native (little-endian) order
RECURSIVE ToBytes(_, _)
ToBytes(v, n) == IF n = 0 THEN <<>> ELSE <<v % 256>> \o ToBytes(v \div 256, n - 1)

RECURSIVE FromBytes(_)
FromBytes(s) == IF s = <<>> THEN 0 ELSE Head(s) + 256 * FromBytes(Tail(s))

\* the 4 bytes of a float in memory, native (little-endian) order
FloatToBytes(f) == <<f[4], f[3], f[2], f[1]>>
FloatFromBytes(s) == <<s[4], s[3], s[2], s[1]>>

HexDigits == <<"0", "1", "2", "3", "4", "5", "6", "7",
               "8", "9", "a", "b", "c", "d", "e", "f">>
HexChar(d) == HexDigits[d + 1]
HexVal(c) == CHOOSE d \in 0..15 : HexDigits[d + 1] = c

\* sprintf "%0<n>x": n digits, most significant first
RECURSIVE ToHex(_, _)
ToHex(v, n) == IF n = 0 THEN <<>> ELSE ToHex(v \div 16, n - 1) \o <<HexChar(v % 16)>>

\* strtoull(s, NULL, 16) and sscanf "%x"
RECURSIVE FromHex(_)
FromHex(s) ==
    IF s = <<>> THEN 0
    ELSE 16 * FromHex(SubSeq(s, 1, Len(s) - 1)) + HexVal(s[Len(s)])

RECURSIVE BytesToHex(_)
BytesToHex(s) == IF s = <<>> THEN <<>> ELSE ToHex(Head(s), 2) \o BytesToHex(Tail(s))

\* "%08x" of *(unsigned int*)&f
FloatToHex(f) == BytesToHex(f)

\* sscanf(fpr, "%x", &t_fpr); *((float*)&t_fpr)
FloatFromHex(s) == [i \in 1..4 |-> FromHex(SubSeq(s, 2 * i - 1, 2 * i))]

-----------------------------------------------------------------------------
(* The struct, the heap, files, streams *)

\* a BloomFilter in zeroed storage, before any init
ZeroFilter ==
    [bloom |-> "NULL", bloom_length |-> 0, elements_added |-> 0,
     estimated_elements |-> 0, false_positive_probability |-> F_ZERO,
     number_hashes |-> 0, number_bits |-> 0, hash_function |-> "NULL",
     filepointer |-> "NULL", is_on_disk |-> 0, filesize |-> 0]

NoBlock == [alloc |-> FALSE, data |-> <<>>]
NoFile == [exists |-> FALSE, data |-> <<>>]
Closed == [open |-> FALSE, path |-> "", pend |-> FALSE, off |-> 0, data |-> <<>>]
Unmapped == [active |-> FALSE, path |-> ""]

\* file names a caller passes: the second lies in a directory that does not exist
Paths == {"f.blm", "nodir/g.blm"}
CanCreate(path) == path = "f.blm"

\* the bytes bf->bloom points to
BloomOf(b, m, fs, mp) ==
    IF b.bloom = "heap" THEN m.data
    ELSE IF b.bloom = "mmap" THEN fs[mp.path].data
    ELSE <<>>

Bloom == BloomOf(bf, mem, files, mapping)

\* d with the bytes at offset off (0-based) replaced; bytes written past the
\* end make the file longer
Overwrite(d, off, bytes) ==
    LET end == IF off + Len(bytes) > Len(d) THEN off + Len(bytes) ELSE Len(d)
    IN  [i \in 1..end |->
            IF i > off /\ i <= off + Len(bytes) THEN bytes[i - off] ELSE d[i]]

\* the stream's buffered bytes reach the file (fflush, and what fseek and
\* fclose do first)
Flush(fs, st) ==
    IF st.open /\ st.pend
    THEN [fs EXCEPT ![st.path].data = Overwrite(@, st.off, st.data)]
    ELSE fs

\* what the history variables keep of a filter: the struct and its bit array
NoSnap == [valid |-> FALSE, b |-> ZeroFilter, bloom |-> <<>>]
Snap(b, bytes) == [valid |-> TRUE, b |-> b, bloom |-> SubSeq(bytes, 1, b.bloom_length)]

\* mutant of write_to_file: the trailer written without the insert count
write_to_file_no_count(b, bytes, on_disk) ==
    (IF on_disk = 0 THEN SubSeq(bytes, 1, b.bloom_length) ELSE Zeros(b.bloom_length))
        \o ToBytes(b.estimated_elements, 8)
        \o ToBytes(0, 8)
        \o FloatToBytes(b.false_positive_probability)

\* the bytes write_to_file puts into a freshly truncated file
write_to_file(b, bytes, on_disk) ==
    (IF on_disk = 0 THEN SubSeq(bytes, 1, b.bloom_length) ELSE Zeros(b.bloom_length))
        \o ToBytes(b.estimated_elements, 8)
        \o ToBytes(b.elements_added, 8)
        \o FloatToBytes(b.false_positive_probability)

\* the fields read_from_file sets from the last 20 bytes of the file
ReadTrailer(b, data) ==
    LET t == SubSeq(data, Len(data) - 19, Len(data))
    IN  calculate_optimal_hashes(
            [b EXCEPT !.estimated_elements = FromBytes(SubSeq(t, 1, 8)),
                      !.elements_added = FromBytes(SubSeq(t, 9, 16)),
                      !.false_positive_probability = FloatFromBytes(SubSeq(t, 17, 20))])

\* calloc(bloom_length) followed by fread(bloom, 1, bloom_length) from offset 0
ReadBloom(len, data) == [i \in 1..len |-> IF i <= Len(data) THEN data[i] ELSE 0]

ValidParams(n, p) == ~(n <= 0 \/ FloatLeZero(p) \/ FloatGeOne(p))

\* the (n, p) pairs init accepts, among the arguments of the model
ValidArgs == {a \in (0..MaxN) \X Floats : ValidParams(a[1], a[2])}

\* number_hashes_passed arguments are 0..MaxPassed: one more than any k
MaxPassed ==
    1 + CHOOSE k \in 0..64 :
          /\ \E a \in ValidArgs : OptimalHashes(a[1], OptimalBits(a[1], a[2])) = k
          /\ \A a \in ValidArgs : OptimalHashes(a[1], OptimalBits(a[1], a[2])) <= k

ConcIdle ==
    /\ openmp = TRUE
    /\ pc = [t \in Threads |-> "idle"]
    /\ idx = [t \in Threads |-> 0]
    /\ reg = [t \in Threads |-> 0]

\* no struct with a wide counter is in use
NoRate == [number_hashes |-> 0, elements_added |-> <<0, 0, 0, 0>>,
           adds |-> 0, called |-> FALSE, num |-> <<0, 0>>]

\* a zeroed struct, no block, no file, no stream: nothing has been called yet
Uninitialised ==
    /\ bf = ZeroFilter
    /\ mem = NoBlock
    /\ files = [q \in Paths |-> NoFile]
    /\ stream = Closed
    /\ mapping = Unmapped
    /\ hex = <<>>
    /\ live = FALSE
    /\ op = "none"
    /\ ret = BLOOM_SUCCESS
    /\ inserted = {}
    /\ fileSrc = [q \in Paths |-> NoSnap]
    /\ hexSrc = NoSnap
    /\ args \in ValidArgs \X HashArgs
    /\ ConcIdle

Init == Uninitialised /\ rate = NoRate

rest == <<args, openmp, pc, idx, reg, rate>>

-----------------------------------------------------------------------------
(* bloom_filter_init_alt *)

\* the struct after lines 41-47
InitFields(b, n, p, hash_function) ==
    SetHash([calculate_optimal_hashes(
                [b EXCEPT !.estimated_elements = n,
                          !.false_positive_probability = p])
             EXCEPT !.bloom = "heap", !.elements_added = 0, !.is_on_disk = 0],
            hash_function)

InitAlt(n, p, hash_function) ==
    /\ ~live
    /\ op' = "init"
    /\ IF ~ValidParams(n, p)
       THEN /\ ret' = BLOOM_FAILURE
            /\ UNCHANGED <<bf, mem, live, inserted>>
       ELSE LET b1 == InitFields(bf, n, p, hash_function)
            IN  /\ mem' = [alloc |-> TRUE, data |-> Zeros(b1.bloom_length)]
                /\ bf' = b1
                /\ live' = TRUE
                /\ inserted' = {}
                /\ ret' = BLOOM_SUCCESS
    /\ UNCHANGED <<files, stream, mapping, hex, fileSrc, hexSrc, rest>>

-----------------------------------------------------------------------------
(* bloom_filter_import_on_disk_alt, on the struct b and the files fs;       *)
(* also the tail of bloom_filter_init_on_disk_alt                           *)

\* the struct after lines 225-233, the file holding data
ImportOnDiskFields(b, data, hash_function) ==
    SetHash([ReadTrailer(b, data) EXCEPT !.filepointer = "fp",
                                         !.filesize = Len(data),
                                         !.bloom = "mmap",
                                         !.is_on_disk = 1], hash_function)

ImportOnDiskBody(b, fs, filepath, hash_function) ==
    IF ~fs[filepath].exists
    THEN /\ bf' = [b EXCEPT !.filepointer = "NULL"]
         /\ ret' = BLOOM_FAILURE
         /\ files' = fs
         /\ UNCHANGED <<stream, mapping, live, inserted, fileSrc>>
    ELSE /\ bf' = ImportOnDiskFields(b, fs[filepath].data, hash_function)
         /\ stream' = [Closed EXCEPT !.open = TRUE, !.path = filepath]
         /\ mapping' = [active |-> TRUE, path |-> filepath]
         /\ files' = fs
         /\ fileSrc' = [fileSrc EXCEPT ![filepath] = NoSnap]
         /\ live' = TRUE
         /\ inserted' = {}
         /\ ret' = BLOOM_SUCCESS

ImportOnDiskAlt(filepath, hash_function) ==
    /\ ~live
    /\ op' = "import_on_disk"
    /\ ImportOnDiskBody(bf, files, filepath, hash_function)
    /\ UNCHANGED <<mem, hex, hexSrc, rest>>

InitOnDiskAlt(n, p, filepath, hash_function) ==
    /\ ~live
    /\ op' = "init_on_disk"
    /\ IF ~ValidParams(n, p)
       THEN /\ ret' = BLOOM_FAILURE
            /\ UNCHANGED <<bf, files, stream, mapping, live, inserted, fileSrc>>
       ELSE LET b1 == [calculate_optimal_hashes(
                          [bf EXCEPT !.estimated_elements = n,
                                     !.false_positive_probability = p])
                       EXCEPT !.elements_added = 0]
            IN  IF ~CanCreate(filepath)
                THEN /\ bf' = b1
                     /\ ret' = BLOOM_FAILURE
                     /\ UNCHANGED <<files, stream, mapping, live, inserted, fileSrc>>
                ELSE ImportOnDiskBody(b1,
                        [files EXCEPT ![filepath] =
                            [exists |-> TRUE, data |-> write_to_file(b1, <<>>, 1)]],
                        filepath, hash_function)
    /\ UNCHANGED <<mem, hex, hexSrc, rest>>

-----------------------------------------------------------------------------
(* bloom_filter_destroy, bloom_filter_clear *)

\* the fields lines 82-91 assign
DestroyFields(b) ==
    [b EXCEPT !.bloom = "NULL", !.filepointer = "NULL", !.elements_added = 0,
              !.estimated_elements = 0, !.false_positive_probability = F_ZERO,
              !.number_hashes = 0, !.number_bits = 0, !.hash_function = "NULL",
              !.is_on_disk = 0, !.filesize = 0]

Destroy ==
    /\ live
    /\ op' = "destroy"
    /\ IF bf.is_on_disk = 0
       THEN /\ mem' = NoBlock                     \* free(bf->bloom)
            /\ UNCHANGED <<files, stream, mapping>>
       ELSE /\ files' = Flush(files, stream)      \* fclose(bf->filepointer)
            /\ stream' = Closed
            /\ mapping' = Unmapped                \* munmap
            /\ UNCHANGED mem
    /\ bf' = DestroyFields(bf)
    /\ live' = FALSE
    /\ inserted' = {}
    /\ ret' = BLOOM_SUCCESS
    /\ UNCHANGED <<hex, fileSrc, hexSrc, rest>>

\* the bytes bf->bloom points to become new: through the heap block or the mapping
StoreBloom(b, m, fs, mp, new) ==
    [m |-> IF b.bloom = "heap" THEN [m EXCEPT !.data = new] ELSE m,
     fs |-> IF b.bloom = "mmap" THEN [fs EXCEPT ![mp.path].data = new] ELSE fs]

\* for (i = 0; i < bloom_length; i++) bloom[i] = 0
ClearBytes(bytes, len) == [i \in 1..Len(bytes) |-> IF i <= len THEN 0 ELSE bytes[i]]

Clear ==
    /\ live
    /\ op' = "clear"
    /\ LET st == StoreBloom(bf, mem, files, mapping, ClearBytes(Bloom, bf.bloom_length))
       IN  /\ mem' = st.m
           /\ files' = st.fs
    /\ bf' = [bf EXCEPT !.elements_added = 0]
    /\ inserted' = {}
    /\ ret' = BLOOM_SUCCESS
    /\ UNCHANGED <<stream, mapping, hex, live, fileSrc, hexSrc, rest>>

-----------------------------------------------------------------------------
(* bloom_filter_add_string_alt and bloom_filter_add_string *)

\* mutant of BitIndex: the hash reduced modulo the bits of the buffer, not m
BitIndexWide(b, h) == h % (8 * b.bloom_length)

\* the bit index one hash selects
BitIndex(b, h) == h % b.number_bits

\* the add loop from round i on: bloom[...] |= 1 << ... for each of the k hashes
RECURSIVE AddLoop(_, _, _, _)
AddLoop(b, bytes, hashes, i) ==
    IF i > b.number_hashes THEN bytes
    ELSE AddLoop(b, set_bit(bytes, BitIndex(b, hashes[i])), hashes, i + 1)

\* mutant of IncrementAdded: the increment left out
IncrementAddedNone(b) == b

\* bf->elements_added++
IncrementAdded(b) == [b EXCEPT !.elements_added = @ + 1]

\* sizeof(uint64_t) + sizeof(float), the distance of the counter from the end
CounterOffset == 8 + 4

\* fseek(fp, -offset, SEEK_END) then fwrite(&elements_added, 8, 1, fp):
\* the seek transmits what the stream still holds, the write is buffered
SeekAndWrite(fs, st, b) ==
    LET fs1 == Flush(fs, st)
    IN  [fs |-> fs1,
         st |-> [st EXCEPT !.pend = TRUE,
                           !.off = Len(fs1[st.path].data) - CounterOffset,
                           !.data = ToBytes(b.elements_added, 8)]]

\* the keys whose k hashes are the first k of hashes
KeysOf(b, hashes) ==
    {x \in Keys : bloom_filter_calculate_hashes(b, x, b.number_hashes)
                    = SubSeq(hashes, 1, b.number_hashes)}

\* mutant of RejectAdd: the call is counted before the hashes are
RejectAddCounted ==
    /\ ret' = BLOOM_FAILURE
    /\ bf' = [bf EXCEPT !.elements_added = @ + 1]
    /\ UNCHANGED <<mem, files, stream, inserted>>

\* lines 144-147: too few hashes, nothing is touched
RejectAdd ==
    /\ ret' = BLOOM_FAILURE
    /\ UNCHANGED <<bf, mem, files, stream, inserted>>

\* The C library may hold the bytes of fwrite in the stream's buffer or
\* transmit them at once (sync): the code asks for neither.
AddBody(hashes, number_hashes_passed) ==
    IF number_hashes_passed < bf.number_hashes
    THEN RejectAdd
    ELSE /\ bf.elements_added < MaxAdded
         /\ LET b1 == IncrementAdded(bf)
                st == StoreBloom(bf, mem, files, mapping, AddLoop(bf, Bloom, hashes, 1))
            IN  /\ bf' = b1
                /\ mem' = st.m
                /\ IF bf.is_on_disk = 1
                   THEN \E sync \in BOOLEAN :
                          LET w == SeekAndWrite(st.fs, stream, b1)
                          IN  IF sync
                              THEN /\ files' = Flush(w.fs, w.st)
                                   /\ stream' = [w.st EXCEPT !.pend = FALSE]
                              ELSE /\ files' = w.fs
                                   /\ stream' = w.st
                   ELSE /\ files' = st.fs
                        /\ UNCHANGED stream
         /\ inserted' = inserted \cup KeysOf(bf, hashes)
         /\ ret' = BLOOM_SUCCESS

\* the hashes a caller passes: count of them, computed for some key with
\* bloom_filter_calculate_hashes
HashInputs(count) == {bloom_filter_calculate_hashes(bf, x, count) : x \in Keys}

AddStringAlt(hashes, number_hashes_passed) ==
    /\ live
    /\ op' = "add_alt"
    /\ AddBody(hashes, number_hashes_passed)
    /\ UNCHANGED <<mapping, hex, live, fileSrc, hexSrc, rest>>

AddString(str) ==
    /\ live
    /\ op' = "add"
    /\ AddBody(bloom_filter_calculate_hashes(bf, str, bf.number_hashes), bf.number_hashes)
    /\ UNCHANGED <<mapping, hex, live, fileSrc, hexSrc, rest>>

-----------------------------------------------------------------------------
(* bloom_filter_check_string_alt and bloom_filter_check_string *)

\* the check loop from round i on: stops with BLOOM_FAILURE at the first clear bit
RECURSIVE CheckLoop(_, _, _, _)
CheckLoop(b, bytes, hashes, i) ==
    IF i > b.number_hashes THEN BLOOM_SUCCESS
    ELSE IF check_bit(bytes, BitIndex(b, hashes[i])) = 0 THEN BLOOM_FAILURE
    ELSE CheckLoop(b, bytes, hashes, i + 1)

bloom_filter_check_string_alt(b, bytes, hashes, number_hashes_passed) ==
    IF number_hashes_passed < b.number_hashes
    THEN BLOOM_FAILURE
    ELSE CheckLoop(b, bytes, hashes, 1)

bloom_filter_check_string(b, bytes, str) ==
    bloom_filter_check_string_alt(b, bytes,
        bloom_filter_calculate_hashes(b, str, b.number_hashes), b.number_hashes)

CheckStringAlt(hashes, number_hashes_passed) ==
    /\ live
    /\ op' = "check_alt"
    /\ ret' = bloom_filter_check_string_alt(bf, Bloom, hashes, number_hashes_passed)
    /\ UNCHANGED <<bf, mem, files, stream, mapping, hex, live, inserted,
                   fileSrc, hexSrc, rest>>

CheckString(str) ==
    /\ live
    /\ op' = "check"
    /\ ret' = bloom_filter_check_string(bf, Bloom, str)
    /\ UNCHANGED <<bf, mem, files, stream, mapping, hex, live, inserted,
                   fileSrc, hexSrc, rest>>

-----------------------------------------------------------------------------
(* bloom_filter_current_false_positive_rate: reads the struct, writes nothing *)

CurrentFalsePositiveRate ==
    /\ live
    /\ op' = "current_false_positive_rate"
    /\ UNCHANGED <<bf, mem, files, stream, mapping, hex, live, ret, inserted,
                   fileSrc, hexSrc, rest>>

-----------------------------------------------------------------------------
(* bloom_filter_export, bloom_filter_import_alt *)

Export(filepath) ==
    /\ live
    /\ op' = "export"
    /\ IF bf.is_on_disk = 1
       THEN /\ ret' = BLOOM_SUCCESS
            /\ UNCHANGED <<files, fileSrc>>
       ELSE IF ~CanCreate(filepath)
       THEN /\ ret' = BLOOM_FAILURE
            /\ UNCHANGED <<files, fileSrc>>
       ELSE /\ files' = [files EXCEPT ![filepath] =
                            [exists |-> TRUE, data |-> write_to_file(bf, Bloom, 0)]]
            /\ fileSrc' = [fileSrc EXCEPT ![filepath] = Snap(bf, Bloom)]
            /\ ret' = BLOOM_SUCCESS
    /\ UNCHANGED <<bf, mem, stream, mapping, hex, live, inserted, hexSrc, rest>>

ImportAlt(filepath, hash_function) ==
    /\ ~live
    /\ op' = "import"
    /\ IF ~files[filepath].exists
       THEN /\ ret' = BLOOM_FAILURE
            /\ UNCHANGED <<bf, mem, live, inserted>>
       ELSE LET b1 == ReadTrailer(bf, files[filepath].data)
            IN  /\ mem' = [alloc |-> TRUE,
                           data |-> ReadBloom(b1.bloom_length, files[filepath].data)]
                /\ bf' = SetHash([b1 EXCEPT !.bloom = "heap", !.is_on_disk = 0],
                                 hash_function)
                /\ live' = TRUE
                /\ inserted' = {}
                /\ ret' = BLOOM_SUCCESS
    /\ UNCHANGED <<files, stream, mapping, hex, fileSrc, hexSrc, rest>>

-----------------------------------------------------------------------------
(* bloom_filter_export_hex_string, bloom_filter_import_hex_string_alt *)

\* mutant of export_hex_string: bytes printed low digit first
export_hex_string_low_first(b, bytes) ==
    [i \in 1..(2 * b.bloom_length) |->
        HexChar(IF i % 2 = 1 THEN bytes[(i + 1) \div 2] % 16
                ELSE bytes[i \div 2] \div 16)]
        \o ToHex(b.estimated_elements, 16)
        \o ToHex(b.elements_added, 16)
        \o FloatToHex(b.false_positive_probability)

export_hex_string(b, bytes) ==
    BytesToHex(SubSeq(bytes, 1, b.bloom_length))
        \o ToHex(b.estimated_elements, 16)
        \o ToHex(b.elements_added, 16)
        \o FloatToHex(b.false_positive_probability)

ExportHex ==
    /\ live
    /\ op' = "export_hex"
    /\ hex' = export_hex_string(bf, Bloom)
    /\ hexSrc' = Snap(bf, Bloom)
    /\ UNCHANGED <<bf, mem, files, stream, mapping, live, ret, inserted, fileSrc, rest>>

\* the fields import_hex_string_alt parses from the last 40 characters
HexTrailer(b, h) ==
    LET len == Len(h)
    IN  calculate_optimal_hashes(
            [b EXCEPT !.estimated_elements = FromHex(SubSeq(h, len - 39, len - 24)),
                      !.elements_added = FromHex(SubSeq(h, len - 23, len - 8)),
                      !.false_positive_probability = FloatFromHex(SubSeq(h, len - 7, len))])

\* sscanf(hex + i * 2, "%2hhx", &bloom[i]) for each i below bloom_length
HexBloom(len, h) == [i \in 1..len |-> FromHex(SubSeq(h, 2 * i - 1, 2 * i))]

ImportHex(h, hash_function) ==
    /\ ~live
    /\ op' = "import_hex"
    /\ IF Len(h) % 2 # 0
       THEN /\ ret' = BLOOM_FAILURE
            /\ UNCHANGED <<bf, mem, live, inserted>>
       ELSE LET b1 == HexTrailer(bf, h)
            IN  /\ bf' = [SetHash(b1, hash_function) EXCEPT !.bloom = "heap",
                                                            !.is_on_disk = 0]
                /\ mem' = [alloc |-> TRUE, data |-> HexBloom(b1.bloom_length, h)]
                /\ live' = TRUE
                /\ inserted' = {}
                /\ ret' = BLOOM_SUCCESS
    /\ UNCHANGED <<files, stream, mapping, hex, fileSrc, hexSrc, rest>>

\* the strings a caller passes to import: the exported one, and it cut short
HexInputs == IF hex = <<>> THEN {} ELSE {hex, Tail(hex)}

-----------------------------------------------------------------------------
(* The sequential specification: one caller, one call at a time, on a heap  *)
(* filter or a file-backed one                                              *)

\* the (n, p) a caller passes to init: its own valid pair, or any invalid pair
InitArgs == {a \in (0..MaxN) \X Floats : ValidParams(a[1], a[2]) => a = args[1]}

Create ==
    \/ \E a \in InitArgs : InitAlt(a[1], a[2], args[2])
    \/ \E a \in InitArgs, q \in Paths : InitOnDiskAlt(a[1], a[2], q, args[2])

Use ==
    \/ Destroy
    \/ Clear
    \/ \E x \in Keys : AddString(x)
    \/ \E x \in Keys : CheckString(x)
    \/ \E c \in 0..MaxPassed : \E hs \in HashInputs(c) : AddStringAlt(hs, c)
    \/ \E c \in 0..MaxPassed : \E hs \in HashInputs(c) : CheckStringAlt(hs, c)
    \/ CurrentFalsePositiveRate

Next ==
    \/ Create
    \/ Use
    \/ \E q \in Paths : Export(q)
    \/ \E q \in Paths : ImportAlt(q, args[2])
    \/ \E q \in Paths : ImportOnDiskAlt(q, args[2])

Spec == Init /\ [][Next]_vars

-----------------------------------------------------------------------------
(* The specification of the functions that take hashes: a filter is created *)
(* on the heap or on disk, and the caller computes the hashes itself        *)

NextAlt ==
    \/ Create
    \/ Clear
    \/ \E c \in 0..MaxPassed : \E hs \in HashInputs(c) : AddStringAlt(hs, c)
    \/ \E c \in 0..MaxPassed : \E hs \in HashInputs(c) : CheckStringAlt(hs, c)

SpecAlt == Init /\ [][NextAlt]_vars

-----------------------------------------------------------------------------
(* The hex specification: a heap filter and the strings exported from it *)

NextHex ==
    \/ \E a \in InitArgs : InitAlt(a[1], a[2], args[2])
    \/ Destroy
    \/ Clear
    \/ \E x \in Keys : AddString(x)
    \/ ExportHex
    \/ \E h \in HexInputs : ImportHex(h, args[2])

SpecHex == Init /\ [][NextHex]_vars

-----------------------------------------------------------------------------
(* The concurrent specification: each thread t calls bloom_filter_add_string *)
(* once, with key t, on one heap filter that init has created.  ATOMIC is    *)
(* "omp atomic" in a build with _OPENMP and empty otherwise (lines 17-23):   *)
(* there the read-modify-write of a byte and of the counter are a load and a *)
(* store that other threads' steps may come between.                         *)

\* mutant of Atomic: ATOMIC empty in every build
AtomicNever == FALSE

\* ATOMIC makes the statement after it one indivisible update
Atomic == openmp

\* CRITICAL lets one thread at a time into the block after it
Critical == openmp

KeyOf(t) == t

\* the hashes thread t passes: bloom_filter_calculate_hashes(bf, str, k)
HashesOf(t) == bloom_filter_calculate_hashes(bf, KeyOf(t), bf.number_hashes)

\* the bit, and the index of the byte, that round idx[t] of the loop sets
BitOf(t) == BitIndex(bf, HashesOf(t)[idx[t] + 1])
ByteOf(t) == (BitOf(t) \div 8) + 1

InitConc ==
    /\ args \in ValidArgs \X HashArgs
    /\ openmp \in BOOLEAN
    /\ bf = InitFields(ZeroFilter, args[1][1], args[1][2], args[2])
    /\ mem = [alloc |-> TRUE, data |-> Zeros(bf.bloom_length)]
    /\ files = [q \in Paths |-> NoFile]
    /\ stream = Closed
    /\ mapping = Unmapped
    /\ hex = <<>>
    /\ live = TRUE
    /\ op = "init"
    /\ ret = BLOOM_SUCCESS
    /\ inserted = {}
    /\ fileSrc = [q \in Paths |-> NoSnap]
    /\ hexSrc = NoSnap
    /\ pc = [t \in Threads |-> "loop"]
    /\ idx = [t \in Threads |-> 0]
    /\ reg = [t \in Threads |-> 0]
    /\ rate = NoRate

seq == <<mapping, hex, live, op, ret, inserted, fileSrc, hexSrc, args, openmp, rate>>

\* the position after line 157: the trailer write if the filter is on disk,
\* else the return
AfterIncrement == IF bf.is_on_disk = 1 THEN "seek" ELSE "done"

\* line 153 under ATOMIC: bloom[byte] |= 1 << bit, in one step
SetBitAtomic(t) ==
    /\ pc[t] = "loop" /\ idx[t] < bf.number_hashes /\ Atomic
    /\ LET st == StoreBloom(bf, mem, files, mapping, set_bit(Bloom, BitOf(t)))
       IN  mem' = st.m /\ files' = st.fs
    /\ idx' = [idx EXCEPT ![t] = @ + 1]
    /\ UNCHANGED <<bf, stream, pc, reg, seq>>

\* line 153 without ATOMIC: the byte is loaded ...
LoadByte(t) ==
    /\ pc[t] = "loop" /\ idx[t] < bf.number_hashes /\ ~Atomic
    /\ reg' = [reg EXCEPT ![t] = Bloom[ByteOf(t)]]
    /\ pc' = [pc EXCEPT ![t] = "store"]
    /\ UNCHANGED <<bf, mem, files, stream, idx, seq>>

\* ... and the loaded value, with the bit set, is stored
StoreByte(t) ==
    /\ pc[t] = "store"
    /\ LET st == StoreBloom(bf, mem, files, mapping,
                     [Bloom EXCEPT ![ByteOf(t)] = OrBit(reg[t], BitOf(t) % 8)])
       IN  mem' = st.m /\ files' = st.fs
    /\ idx' = [idx EXCEPT ![t] = @ + 1]
    /\ reg' = [reg EXCEPT ![t] = 0]
    /\ pc' = [pc EXCEPT ![t] = "loop"]
    /\ UNCHANGED <<bf, stream, seq>>

\* line 157 under ATOMIC: elements_added++ in one step
IncrementAtomic(t) ==
    /\ pc[t] = "loop" /\ idx[t] = bf.number_hashes /\ Atomic
    /\ bf' = IncrementAdded(bf)
    /\ pc' = [pc EXCEPT ![t] = AfterIncrement]
    /\ UNCHANGED <<mem, files, stream, idx, reg, seq>>

\* line 157 without ATOMIC: the counter is loaded ...
LoadCounter(t) ==
    /\ pc[t] = "loop" /\ idx[t] = bf.number_hashes /\ ~Atomic
    /\ reg' = [reg EXCEPT ![t] = bf.elements_added]
    /\ pc' = [pc EXCEPT ![t] = "count"]
    /\ UNCHANGED <<bf, mem, files, stream, idx, seq>>

\* ... and the loaded value plus one is stored
StoreCounter(t) ==
    /\ pc[t] = "count"
    /\ bf' = [bf EXCEPT !.elements_added = reg[t] + 1]
    /\ reg' = [reg EXCEPT ![t] = 0]
    /\ pc' = [pc EXCEPT ![t] = AfterIncrement]
    /\ UNCHANGED <<mem, files, stream, idx, seq>>

NextConc ==
    \E t \in Threads :
        \/ SetBitAtomic(t)
        \/ LoadByte(t)
        \/ StoreByte(t)
        \/ IncrementAtomic(t)
        \/ LoadCounter(t)
        \/ StoreCounter(t)

SpecConc == InitConc /\ [][NextConc]_vars

-----------------------------------------------------------------------------
(* The concurrent specification of a file-backed filter: each thread calls    *)
(* bloom_filter_add_string once on a filter that init_on_disk has created.    *)
(* After the counter, lines 160-164: CRITICAL is "omp critical" in a build     *)
(* with _OPENMP and empty otherwise.  fseek and fwrite each lock the stream,   *)
(* so each is one step; between them other threads run.                        *)

\* the struct init_on_disk(n, p, filepath, hash_function) leaves, and its file
InitOnDiskFile(n, p) ==
    write_to_file([calculate_optimal_hashes(
                      [ZeroFilter EXCEPT !.estimated_elements = n,
                                         !.false_positive_probability = p])
                   EXCEPT !.elements_added = 0], <<>>, 1)

InitConcDisk ==
    /\ args \in ValidArgs \X HashArgs
    /\ openmp \in BOOLEAN
    /\ files = [q \in Paths |->
                  IF q = "f.blm"
                  THEN [exists |-> TRUE, data |-> InitOnDiskFile(args[1][1], args[1][2])]
                  ELSE NoFile]
    /\ bf = ImportOnDiskFields(ZeroFilter, files["f.blm"].data, args[2])
    /\ mem = NoBlock
    /\ stream = [Closed EXCEPT !.open = TRUE, !.path = "f.blm"]
    /\ mapping = [active |-> TRUE, path |-> "f.blm"]
    /\ hex = <<>>
    /\ live = TRUE
    /\ op = "init_on_disk"
    /\ ret = BLOOM_SUCCESS
    /\ inserted = {}
    /\ fileSrc = [q \in Paths |-> NoSnap]
    /\ hexSrc = NoSnap
    /\ pc = [t \in Threads |-> "loop"]
    /\ idx = [t \in Threads |-> 0]
    /\ reg = [t \in Threads |-> 0]
    /\ rate = NoRate

\* the threads between their fseek and their fwrite
InBlock == {t \in Threads : pc[t] = "write"}

\* line 162, entering the block: fseek(fp, -12, SEEK_END) transmits what the
\* stream holds and sets its position
Seek(t) ==
    /\ pc[t] = "seek"
    /\ Critical => InBlock = {}
    /\ files' = Flush(files, stream)
    /\ stream' = [stream EXCEPT !.pend = FALSE, !.data = <<>>,
                                !.off = Len(files'[stream.path].data) - CounterOffset]
    /\ pc' = [pc EXCEPT ![t] = "write"]
    /\ UNCHANGED <<bf, mem, idx, reg, seq>>

\* line 163, leaving the block: fwrite(&bf->elements_added, 8, 1, fp) puts the
\* counter as it is now at the stream's position; the bytes stay in the
\* stream's buffer or are transmitted at once (sync)
Write(t) ==
    /\ pc[t] = "write"
    /\ LET st == [stream EXCEPT !.pend = TRUE,
                                !.data = @ \o ToBytes(bf.elements_added, 8)]
       IN  \E sync \in BOOLEAN :
              IF sync
              THEN /\ files' = Flush(files, st)
                   /\ stream' = [st EXCEPT !.pend = FALSE, !.data = <<>>,
                                           !.off = @ + Len(st.data)]
              ELSE /\ files' = files
                   /\ stream' = st
    /\ pc' = [pc EXCEPT ![t] = "done"]
    /\ UNCHANGED <<bf, mem, idx, reg, seq>>

NextConcDisk ==
    \/ NextConc
    \/ \E t \in Threads : Seek(t)
    \/ \E t \in Threads : Write(t)

SpecConcDisk == InitConcDisk /\ [][NextConcDisk]_vars

\* every thread's bloom_filter_add_string has returned
AllReturned == \A t \in Threads : pc[t] = "done"

-----------------------------------------------------------------------------
(* bloom_filter_current_false_positive_rate, line 188, in full width:        *)
(*     int num = (bf->number_hashes * -1 * bf->elements_added);              *)
(* elements_added is a uint64_t, so the product is formed modulo 2^64 and    *)
(* the assignment to int keeps its low 32 bits.                              *)

\* v + 1 on limbs, modulo 2^(16 * Len(w))
RECURSIVE WideInc(_)
WideInc(w) ==
    IF w = <<>> THEN <<>>
    ELSE IF Head(w) + 1 < Pow2(16) THEN <<Head(w) + 1>> \o Tail(w)
    ELSE <<0>> \o WideInc(Tail(w))

\* k * w + carry on limbs, modulo 2^(16 * Len(w))
RECURSIVE WideMul(_, _, _)
WideMul(w, k, carry) ==
    IF w = <<>> THEN <<>>
    ELSE <<(k * Head(w) + carry) % Pow2(16)>>
            \o WideMul(Tail(w), k, (k * Head(w) + carry) \div Pow2(16))

\* -w on limbs, modulo 2^(16 * Len(w)): two's complement
WideNeg(w) == WideInc([i \in 1..Len(w) |-> Pow2(16) - 1 - w[i]])

\* the int num of line 188: the low 32 bits of number_hashes * -1 * elements_added
current_false_positive_rate_num(number_hashes, elements_added) ==
    SubSeq(WideNeg(WideMul(elements_added, number_hashes, 0)), 1, 2)

\* the number_hashes values of the filters init creates
RateHashes == {OptimalHashes(a[1], OptimalBits(a[1], a[2])) : a \in ValidArgs}

\* elements_added values, as an import may read them from a trailer: 0, 1,
\* 2^16 - 1, 715827883, 2^31, 2^32 - 1, 2^32, 2^64 - 1
RateCounts ==
    {<<0, 0, 0, 0>>, <<1, 0, 0, 0>>, <<65535, 0, 0, 0>>, <<43691, 10922, 0, 0>>,
     <<0, 32768, 0, 0>>, <<65535, 65535, 0, 0>>, <<0, 0, 1, 0>>,
     <<65535, 65535, 65535, 65535>>}

InitRate ==
    /\ Uninitialised
    /\ rate \in {[NoRate EXCEPT !.number_hashes = k, !.elements_added = e] :
                    k \in RateHashes, e \in RateCounts}

\* line 157 on the wide counter: bf->elements_added++
RateAdd ==
    /\ rate.adds < MaxAdded
    /\ rate' = [rate EXCEPT !.elements_added = WideInc(@), !.adds = @ + 1,
                            !.called = FALSE, !.num = <<0, 0>>]
    /\ UNCHANGED <<bf, mem, files, stream, mapping, hex, live, op, ret, inserted,
                   fileSrc, hexSrc, args, openmp, pc, idx, reg>>

\* line 188
RateNum ==
    /\ ~rate.called
    /\ rate' = [rate EXCEPT !.called = TRUE,
                            !.num = current_false_positive_rate_num(
                                        rate.number_hashes, rate.elements_added)]
    /\ UNCHANGED <<bf, mem, files, stream, mapping, hex, live, op, ret, inserted,
                   fileSrc, hexSrc, args, openmp, pc, idx, reg>>

NextRate == RateAdd \/ RateNum

SpecRate == InitRate /\ [][NextRate]_vars

-----------------------------------------------------------------------------
(* The import specification: a file and a hex string that some other        *)
(* program wrote are imported.  Their trailers hold any n >= 1 and any p    *)
(* with 0 < p <= 1: the import functions test neither.  (For n = 0, p <= 0  *)
(* or p > 1 lines 294-295 convert a NaN or a negative double to an unsigned *)
(* type, which is undefined; those trailers are left out.)                  *)

\* the (n, p) a foreign trailer holds
TrailerArgs == ValidArgs \cup {<<n, F_ONE>> : n \in 1..MaxN}

\* the struct fields a foreign trailer stands for
TrailerFilter(n, p, added) ==
    [calculate_optimal_hashes([ZeroFilter EXCEPT !.estimated_elements = n,
                                                 !.false_positive_probability = p])
     EXCEPT !.elements_added = added]

InitImport ==
    /\ bf = ZeroFilter
    /\ mem = NoBlock
    /\ \E a \in TrailerArgs, added \in 0..MaxAdded :
          LET b == TrailerFilter(a[1], a[2], added)
          IN  /\ files = [q \in Paths |->
                            IF q = "f.blm"
                            THEN [exists |-> TRUE,
                                  data |-> write_to_file(b, Zeros(b.bloom_length), 0)]
                            ELSE NoFile]
              /\ hex = export_hex_string(b, Zeros(b.bloom_length))
    /\ stream = Closed
    /\ mapping = Unmapped
    /\ live = FALSE
    /\ op = "none"
    /\ ret = BLOOM_SUCCESS
    /\ inserted = {}
    /\ fileSrc = [q \in Paths |-> NoSnap]
    /\ hexSrc = NoSnap
    /\ args \in ValidArgs \X HashArgs
    /\ ConcIdle
    /\ rate = NoRate

NextImport ==
    \/ \E q \in Paths : ImportAlt(q, args[2])
    \/ \E q \in Paths : ImportOnDiskAlt(q, args[2])
    \/ \E h \in HexInputs : ImportHex(h, args[2])
    \/ \E x \in Keys : AddString(x)
    \/ \E x \in Keys : CheckString(x)
    \/ Destroy

SpecImport == InitImport /\ [][NextImport]_vars

-----------------------------------------------------------------------------
(* Properties *)

\* the keys bloom_filter_check_string reports present
Members(b, bytes) == {x \in Keys : bloom_filter_check_string(b, bytes, x) = BLOOM_SUCCESS}

\* the bit array of bf: its first bloom_length bytes
BitArray == SubSeq(Bloom, 1, bf.bloom_length)

\* the filter has the fields, derived parameters, bits and answers of s
SameFilter(s) ==
    /\ bf.estimated_elements = s.b.estimated_elements
    /\ bf.elements_added = s.b.elements_added
    /\ bf.false_positive_probability = s.b.false_positive_probability
    /\ bf.number_bits = s.b.number_bits
    /\ bf.number_hashes = s.b.number_hashes
    /\ bf.bloom_length = s.b.bloom_length
    /\ BitArray = s.bloom
    /\ Members(bf, Bloom) = Members(s.b, s.bloom)

\* a call of add_string or add_string_alt has just returned BLOOM_SUCCESS
AddReturned == op \in {"add", "add_alt"} /\ ret = BLOOM_SUCCESS

\* C1: once insert(x) has returned success, check(x) returns true in every
\* later state of the filter, whatever inserts, checks and exports follow,
\* until clear or destroy.
C1_NoFalseNegatives ==
    live => \A x \in inserted : bloom_filter_check_string(bf, Bloom, x) = BLOOM_SUCCESS

\* C1 witness: every key was inserted, into a filter of several hashes, and a
\* check has just returned true.
C1_Witness ==
    /\ live /\ op = "check" /\ ret = BLOOM_SUCCESS
    /\ inserted = Keys /\ bf.number_hashes >= 2 /\ bf.elements_added >= 2

\* C3: add_string_alt and check_string_alt called with fewer hashes than
\* number_hashes return BLOOM_FAILURE and leave the struct, the bit array, the
\* file and the stream as they were.
C3_InsufficientHashesRejected ==
    [][op' \in {"add_alt", "check_alt"} =>
       \A c \in 0..MaxPassed : \A hs \in HashInputs(c) :
          (c < bf.number_hashes /\ (AddStringAlt(hs, c) \/ CheckStringAlt(hs, c)))
             => (ret' = BLOOM_FAILURE /\ UNCHANGED <<bf, mem, files, stream, mapping>>)]_vars

\* C3 witness: an add_string_alt on a file-backed filter that holds a key has
\* just been rejected.
C3_Witness ==
    /\ live /\ op = "add_alt" /\ ret = BLOOM_FAILURE
    /\ bf.is_on_disk = 1 /\ bf.elements_added > 0 /\ BitArray # Zeros(bf.bloom_length)

\* C4: after clear, elements_added is 0, every byte of the bit array is 0 and
\* check returns false for every key inserted before, whatever valid (n, p)
\* the filter was created with.
C4_ClearResets ==
    [][Clear => /\ bf'.elements_added = 0
                /\ BitArray' = Zeros(bf.bloom_length)
                /\ \A x \in inserted :
                      bloom_filter_check_string(bf', Bloom', x) = BLOOM_FAILURE]_vars

\* C5: a heap filter exported to a file and imported from it has the same
\* estimated_elements, elements_added and false_positive_probability, the same
\* m, k and bloom_length, the same bit array and the same check answers.
C5_BinaryRoundTrip ==
    \A q \in Paths :
        (op = "import" /\ ret = BLOOM_SUCCESS /\ files[q].exists /\ fileSrc[q].valid)
            => SameFilter(fileSrc[q])

\* C5 witness: a filter of two bytes holding inserted keys has been exported
\* and imported.
C5_Witness ==
    /\ op = "import" /\ ret = BLOOM_SUCCESS
    /\ \E q \in Paths : files[q].exists /\ fileSrc[q].valid
    /\ bf.elements_added >= 2 /\ bf.bloom_length >= 2 /\ BitArray # Zeros(bf.bloom_length)

\* C6: export_hex_string followed by import_hex_string_alt of the string gives
\* the same bit array, byte for byte, and the same estimated_elements,
\* elements_added and false_positive_probability; the string is the bit array
\* in hex followed by 40 characters of trailer.
C6_HexRoundTrip ==
    (op = "import_hex" /\ ret = BLOOM_SUCCESS /\ hexSrc.valid)
        => /\ SameFilter(hexSrc)
           /\ Len(hex) = 2 * bf.bloom_length + 40
           /\ SubSeq(hex, 1, 2 * bf.bloom_length) = BytesToHex(BitArray)

\* C6 witness: a filter of two bytes holding inserted keys has been exported
\* to hex and imported.
C6_Witness ==
    /\ op = "import_hex" /\ ret = BLOOM_SUCCESS /\ hexSrc.valid
    /\ bf.elements_added >= 2 /\ bf.bloom_length >= 2 /\ BitArray # Zeros(bf.bloom_length)

\* C7 as claimed: elements_added is changed by insert only and never goes
\* down: a successful insert raises it by 1, every other call on the filter
\* leaves it as it was.
C7_OnlyInsertChangesCounter ==
    [][(live /\ live') =>
          bf'.elements_added =
              IF AddReturned' THEN bf.elements_added + 1 ELSE bf.elements_added]_vars

\* C7 amended: a successful insert raises elements_added by 1, duplicate key
\* or not; clear sets it to 0; check, rejected inserts, export and the
\* false-positive estimate leave it as it was.
C7_CounterCountsInsertsSinceClear ==
    [][(live /\ live') =>
          bf'.elements_added =
              IF AddReturned' THEN bf.elements_added + 1
              ELSE IF op' = "clear" THEN 0
              ELSE bf.elements_added]_vars

\* C7 witness: an insert of a key that was in already has just been counted.
C7_Witness ==
    /\ live /\ op = "add" /\ ret = BLOOM_SUCCESS
    /\ bf.elements_added > Cardinality(inserted)

\* the elements_added field of the backing file's trailer, as the bytes fs hold
TrailerAdded(fs) ==
    FromBytes(SubSeq(fs[mapping.path].data, bf.bloom_length + 9, bf.bloom_length + 16))

\* C8: when an insert on a file-backed filter returns, the elements_added of
\* the file's trailer equals the elements_added in memory.
C8_TrailerWrittenThrough ==
    (live /\ bf.is_on_disk = 1 /\ AddReturned) => TrailerAdded(files) = bf.elements_added

\* C9: between calls, the backing file of a file-backed filter holds the
\* filter: its bit array and, in the trailer, estimated_elements,
\* elements_added and false_positive_probability.  The bytes the stream still
\* buffers are counted as written.
C9_BackingFileHoldsState ==
    (live /\ bf.is_on_disk = 1) =>
        Flush(files, stream)[mapping.path].data = write_to_file(bf, Bloom, 0)

\* the pairs the claim names: n = 0, p <= 0 or p >= 1
InvalidPairs ==
    {a \in (0..MaxN) \X Floats :
        a[1] = 0 \/ a[2] \in {F_ZERO, F_MINUS_HALF} \/ a[2] \in {F_ONE, F_TWO}}

\* C10: init and init_on_disk called with n = 0, p <= 0 or p >= 1 return
\* BLOOM_FAILURE and leave the struct, the heap and the files as they were.
C10_InvalidParamsRejected ==
    [][op' \in {"init", "init_on_disk"} =>
       \A a \in InvalidPairs, q \in Paths, hf \in HashArgs :
          (InitAlt(a[1], a[2], hf) \/ InitOnDiskAlt(a[1], a[2], q, hf))
             => (ret' = BLOOM_FAILURE /\ ~live'
                 /\ UNCHANGED <<bf, mem, files, stream, mapping>>)]_vars

\* C10 witness: an init on a struct that still holds the bloom_length of a
\* destroyed filter has just been rejected.
C10_Witness ==
    /\ ~live /\ op = "init" /\ ret = BLOOM_FAILURE
    /\ bf.bloom_length > 0 /\ ~mem.alloc

\* all N keys report true and elements_added is N
AllKeysCounted ==
    /\ \A t \in Threads : bloom_filter_check_string(bf, Bloom, KeyOf(t)) = BLOOM_SUCCESS
    /\ bf.elements_added = NumThreads

OpenFailed == op \in {"init_on_disk", "import", "import_on_disk"} /\ ret = BLOOM_FAILURE

\* C11: when init_on_disk, import or import_on_disk returns BLOOM_FAILURE
\* because the file cannot be created or opened, every field of the struct is
\* what it was before the call.
C11_OpenFailureKeepsFields == [][OpenFailed' => bf' = bf]_vars

\* C12: after destroy the block is freed, or the stream closed and the mapping
\* removed, and every field of the struct is 0 or NULL, bloom_length included.
C12_DestroyZeroesFields ==
    op = "destroy" =>
        /\ ~mem.alloc /\ ~stream.open /\ ~mapping.active
        /\ bf = ZeroFilter

\* the indices of the bits that are 1 in bytes (bit j is bit j % 8 of byte j / 8)
BitsOf(bytes) ==
    {j \in 0..(8 * Len(bytes) - 1) : (bytes[(j \div 8) + 1] \div Pow2(j % 8)) % 2 = 1}

\* a check of a key whose insert has returned reports it present
DoneKeysPresent ==
    \A t \in Threads :
        pc[t] = "done" => bloom_filter_check_string(bf, Bloom, KeyOf(t)) = BLOOM_SUCCESS

\* no step of any thread clears a bit that is set
BitsKept == BitsOf(BitArray) \subseteq BitsOf(BitArray')

\* C13 as claimed: with threads inserting concurrently, a set bit is never
\* cleared by another thread's insert into the same byte, and a check of x made
\* after insert(x) has returned is true, other inserts still being in flight.
C13_NoLostBits == [](DoneKeysPresent) /\ [][BitsKept]_vars

\* C13 amended: the same, in a build with _OPENMP defined.
C13_NoLostBitsOpenMP == [](openmp => DoneKeysPresent) /\ [][openmp => BitsKept]_vars

\* C13 witness: in a build with _OPENMP one insert has returned while another
\* thread is in the middle of its loop, both setting several bits.
C13_Witness ==
    /\ openmp /\ bf.number_hashes >= 2
    /\ \E t, u \in Threads :
          /\ pc[t] = "done" /\ pc[u] = "loop" /\ idx[u] >= 1 /\ idx[u] < bf.number_hashes
          /\ BitsOf(BitArray) # {}

\* C14: on a file-backed filter shared by inserting threads, at most one
\* thread at a time is between the fseek and the fwrite of the counter, and
\* once all N inserts have returned the elements_added of the file's trailer
\* equals the elements_added in memory, which is N.
C14_TrailerSerialized ==
    /\ Cardinality(InBlock) <= 1
    /\ (bf.is_on_disk = 1 /\ AllReturned) =>
          (TrailerAdded(files) = bf.elements_added /\ bf.elements_added = NumThreads)

\* the bits the first k of hashes select: hashes[i] mod m
BitsSelected(hashes) == {hashes[i] % bf.number_bits : i \in 1..bf.number_hashes}

\* C15: check_string_alt called with at least k hashes returns BLOOM_SUCCESS
\* if and only if every bit hashes[i] mod m, i below k, is set, whatever hashes
\* follow the first k, and changes neither the struct nor the bit array.
C15_CheckAllBits ==
    [][op' = "check_alt" => \A c \in 0..MaxPassed : \A hs \in HashInputs(c) :
          (c >= bf.number_hashes /\ CheckStringAlt(hs, c)) =>
              /\ ret' = IF BitsSelected(hs) \subseteq BitsOf(BitArray)
                        THEN BLOOM_SUCCESS ELSE BLOOM_FAILURE
              /\ UNCHANGED <<bf, mem, files, stream, mapping>>]_vars

\* C15 witness: a check_string_alt of several hashes has just returned true on
\* a filter that holds a key.
C15_Witness ==
    /\ live /\ op = "check_alt" /\ ret = BLOOM_SUCCESS
    /\ bf.number_hashes >= 2 /\ bf.elements_added >= 1 /\ inserted # Keys

\* C16: a successful add_string_alt sets the bits hashes[i] mod m, i below k,
\* and no other: the new bit array is the old one with those bits or-ed in;
\* elements_added grows by 1; n, p, m, k and bloom_length stay.
C16_InsertEffect ==
    [][op' = "add_alt" => \A c \in 0..MaxPassed : \A hs \in HashInputs(c) :
          (c >= bf.number_hashes /\ AddStringAlt(hs, c)) =>
              /\ ret' = BLOOM_SUCCESS
              /\ BitsOf(BitArray') = BitsOf(BitArray) \cup BitsSelected(hs)
              /\ bf' = [bf EXCEPT !.elements_added = @ + 1]]_vars

\* C16 witness: an add_string_alt of several hashes has just succeeded on a
\* file-backed filter that held a key already.
C16_Witness ==
    /\ live /\ op = "add_alt" /\ ret = BLOOM_SUCCESS
    /\ bf.number_hashes >= 2 /\ bf.elements_added >= 2 /\ bf.is_on_disk = 1

\* C17: inserting a key a second time leaves the bit array as the first insert
\* left it and check(x) true, and raises elements_added by 1.
C17_SameKeyInsert ==
    [][op' = "add" => \A x \in Keys :
          (x \in inserted /\ AddString(x)) =>
              /\ BitArray' = BitArray
              /\ bloom_filter_check_string(bf', Bloom', x) = BLOOM_SUCCESS
              /\ bf'.elements_added = bf.elements_added + 1]_vars

\* C17 witness: a key has just been inserted for the second time into a filter
\* that sets bits.
C17_Witness ==
    /\ live /\ op = "add" /\ ret = BLOOM_SUCCESS
    /\ bf.number_hashes >= 1 /\ BitsOf(BitArray) # {}
    /\ Cardinality(inserted) = 1 /\ bf.elements_added = 2

\* log(2.0) * m / n is below one half: k rounds to 0
RoundsToZero(b) == 2 * LOG_TWO * b.number_bits < 1000000 * b.estimated_elements

\* C18: when k rounds to 0, init and import leave number_hashes 0, every insert
\* returns BLOOM_SUCCESS and is counted, and the bit array stays all zero.
C18_ZeroHashesSetNoBits ==
    (live /\ RoundsToZero(bf)) =>
        /\ bf.number_hashes = 0
        /\ BitArray = Zeros(bf.bloom_length)
        /\ op \in {"add", "add_alt"} => (ret = BLOOM_SUCCESS /\ bf.elements_added >= 1)

\* C18 witness: two inserts into a filter of k = 0 have been counted.
C18_Witness ==
    /\ live /\ RoundsToZero(bf) /\ AddReturned
    /\ bf.elements_added >= 2 /\ inserted = Keys

\* the magnitude, on five limbs, of an int that is zero or negative
NumMagnitude(n) ==
    IF n = <<0, 0>> THEN <<0, 0, 0, 0, 0>> ELSE WideNeg(n) \o <<0, 0, 0>>

\* the product k * e in full, on five limbs
ExactProduct(k, e) == WideMul(e \o <<0>>, k, 0)

\* C19: the int num that current_false_positive_rate computes is the
\* mathematical value -(number_hashes * elements_added), for every
\* elements_added and number_hashes: never positive, its magnitude the exact
\* product.
C19_ExponentExact ==
    rate.called =>
        /\ rate.num = <<0, 0>> \/ rate.num[2] >= Pow2(15)
        /\ NumMagnitude(rate.num) = ExactProduct(rate.number_hashes, rate.elements_added)

\* C20: every filter that init, init_on_disk, import, import_on_disk or
\* import_hex produces, whatever its trailer, has m >= 1 and 8 * bloom_length
\* >= m, and bloom points to at least bloom_length bytes.
C20_BitAccessInside ==
    live =>
        /\ bf.number_bits >= 1
        /\ 8 * bf.bloom_length >= bf.number_bits
        /\ Len(Bloom) >= bf.bloom_length

=============================================================================
